---- MODULE Spec2Model ----
(***************************************************************************)
(* Model of the chi / OpenCensus tracing middleware.                       *)
(*                                                                         *)
(* One inbound request travels through OpencensusTracing: the response     *)
(* writer and the request body are decorated, the span is opened (linked   *)
(* to a remote parent when the X-Opencensus-Span header decodes), the five *)
(* finalization steps are deferred, the downstream handler runs (it may    *)
(* write, set the status, read the body, call AddTracingSpanToRequest,     *)
(* return or panic) and the deferred steps run in LIFO order.              *)
(*                                                                         *)
(* Strings that travel in headers or payloads are sequences of byte        *)
(* values (ASCII codes); span names and map keys are TLA+ strings.         *)
(*                                                                         *)
(* The sources hold several revisions of the middleware and of its         *)
(* decorators.  The model follows the latest ones: the middleware that     *)
(* names the span after the route pattern and truncates the payloads, and  *)
(* the decorators it is written against (Flush on the response writer, a   *)
(* pass-through request body that is nil for a nil r.Body, which the       *)
(* middleware's nil check in setSpanRequestPayloadAttribute expects).       *)
(***************************************************************************)
EXTENDS Integers, Sequences, FiniteSets, TLC

(***************************************************************************)
(* Bounds of the model.                                                    *)
(***************************************************************************)
\* number of calls the handler may make on the decorated writer, on the
\* decorated body and on AddTracingSpanToRequest
MaxOps == 2

(***************************************************************************)
(* Program constants.                                                      *)
(***************************************************************************)
payloadSizeLimit == 256

\* "...[payload has been truncated]"
payloadTruncatedMessage ==
    <<46, 46, 46, 91, 112, 97, 121, 108, 111, 97, 100, 32, 104, 97, 115, 32,
      98, 101, 101, 110, 32, 116, 114, 117, 110, 99, 97, 116, 101, 100, 93>>

headerNameOpencensusSpan == "X-Opencensus-Span"
headerNameOpencensusSpanEventIDKey == "X-Opencensus-Event-ID"
spanRequestPayloadAttributeKey == "request_payload"
spanResponsePayloadAttributeKey == "response_payload"

\* math.MaxInt64 at the width of the model's integers: int64 is modelled
\* with 31 value bits, 2^31 - 1 standing for 2^63 - 1
MaxInt64 == 2147483647

\* sizes of the fields of the binary trace-context format
TraceIDLen == 16
SpanIDLen == 8

(***************************************************************************)
(* Generic helpers.                                                        *)
(***************************************************************************)
Min(a, b) == IF a < b THEN a ELSE b

Repeat(x, n) == [i \in 1..n |-> x]

Take(s, n) == SubSeq(s, 1, Min(n, Len(s)))

Drop(s, n) == SubSeq(s, Min(n, Len(s)) + 1, Len(s))

(***************************************************************************)
(* encoding/base64, StdEncoding: the alphabet A-Z a-z 0-9 + / with '='     *)
(* padding.  Characters are ASCII codes.                                   *)
(***************************************************************************)
PadChar == 61

B64Char(i) ==
    IF i < 26 THEN 65 + i
    ELSE IF i < 52 THEN 97 + (i - 26)
    ELSE IF i < 62 THEN 48 + (i - 52)
    ELSE IF i = 62 THEN 43
    ELSE 47

\* the sextet a character stands for, -1 for a character outside the alphabet
B64Index(c) ==
    IF c \in 65..90 THEN c - 65
    ELSE IF c \in 97..122 THEN c - 97 + 26
    ELSE IF c \in 48..57 THEN c - 48 + 52
    ELSE IF c = 43 THEN 62
    ELSE IF c = 47 THEN 63
    ELSE -1

RECURSIVE EncodeToString(_)
EncodeToString(b) ==
    IF Len(b) = 0 THEN <<>>
    ELSE IF Len(b) = 1 THEN
        <<B64Char(b[1] \div 4), B64Char((b[1] % 4) * 16), PadChar, PadChar>>
    ELSE IF Len(b) = 2 THEN
        <<B64Char(b[1] \div 4),
          B64Char((b[1] % 4) * 16 + b[2] \div 16),
          B64Char((b[2] % 16) * 4),
          PadChar>>
    ELSE
        <<B64Char(b[1] \div 4),
          B64Char((b[1] % 4) * 16 + b[2] \div 16),
          B64Char((b[2] % 16) * 4 + b[3] \div 64),
          B64Char(b[3] % 64)>> \o EncodeToString(Drop(b, 3))

\* RawStdEncoding: the same alphabet without padding
RECURSIVE RawEncodeToString(_)
RawEncodeToString(b) ==
    IF Len(b) = 0 THEN <<>>
    ELSE IF Len(b) = 1 THEN
        <<B64Char(b[1] \div 4), B64Char((b[1] % 4) * 16)>>
    ELSE IF Len(b) = 2 THEN
        <<B64Char(b[1] \div 4),
          B64Char((b[1] % 4) * 16 + b[2] \div 16),
          B64Char((b[2] % 16) * 4)>>
    ELSE
        <<B64Char(b[1] \div 4),
          B64Char((b[1] % 4) * 16 + b[2] \div 16),
          B64Char((b[2] % 16) * 4 + b[3] \div 64),
          B64Char(b[3] % 64)>> \o RawEncodeToString(Drop(b, 3))

\* DecodeString returns the bytes of the quanta decoded before the first
\* corrupt position together with the error flag.
RECURSIVE DecodeString(_)
DecodeString(s) ==
    IF Len(s) = 0 THEN [bin |-> <<>>, err |-> FALSE]
    ELSE IF Len(s) < 4 THEN [bin |-> <<>>, err |-> TRUE]
    ELSE
        LET i1 == B64Index(s[1])
            i2 == B64Index(s[2])
            i3 == B64Index(s[3])
            i4 == B64Index(s[4])
            last == Len(s) = 4
        IN  IF i1 < 0 \/ i2 < 0 THEN [bin |-> <<>>, err |-> TRUE]
            ELSE IF s[3] = PadChar THEN
                IF s[4] = PadChar /\ last
                THEN [bin |-> <<i1 * 4 + i2 \div 16>>, err |-> FALSE]
                ELSE [bin |-> <<>>, err |-> TRUE]
            ELSE IF i3 < 0 THEN [bin |-> <<>>, err |-> TRUE]
            ELSE IF s[4] = PadChar THEN
                IF last
                THEN [bin |-> <<i1 * 4 + i2 \div 16,
                                (i2 % 16) * 16 + i3 \div 4>>,
                      err |-> FALSE]
                ELSE [bin |-> <<>>, err |-> TRUE]
            ELSE IF i4 < 0 THEN [bin |-> <<>>, err |-> TRUE]
            ELSE
                LET rest == DecodeString(Drop(s, 4))
                IN  [bin |-> <<i1 * 4 + i2 \div 16,
                               (i2 % 16) * 16 + i3 \div 4,
                               (i3 % 4) * 64 + i4>> \o rest.bin,
                     err |-> rest.err]

(***************************************************************************)
(* go.opencensus.io/trace/propagation: the binary trace-context format     *)
(*   version(0) | 0 | trace id (16) | 1 | span id (8) | 2 | options (1)    *)
(***************************************************************************)
ZeroTraceID == Repeat(0, TraceIDLen)
ZeroSpanID == Repeat(0, SpanIDLen)

EmptySpanContext ==
    [TraceID |-> ZeroTraceID, SpanID |-> ZeroSpanID, TraceOptions |-> 0]

Binary(sc) ==
    IF sc = EmptySpanContext THEN <<>>
    ELSE <<0, 0>> \o sc.TraceID \o <<1>> \o sc.SpanID
         \o <<2, sc.TraceOptions % 256>>

FromBinary(b) ==
    IF Len(b) = 0 \/ b[1] # 0 THEN [sc |-> EmptySpanContext, ok |-> FALSE]
    ELSE
        LET b1 == Drop(b, 1)
        IN  IF ~(Len(b1) >= TraceIDLen + 1 /\ b1[1] = 0)
            THEN [sc |-> EmptySpanContext, ok |-> FALSE]
            ELSE
                LET tid == SubSeq(b1, 2, TraceIDLen + 1)
                    b2 == Drop(b1, TraceIDLen + 1)
                    hasSpan == Len(b2) >= SpanIDLen + 1 /\ b2[1] = 1
                    sid == IF hasSpan THEN SubSeq(b2, 2, SpanIDLen + 1)
                           ELSE ZeroSpanID
                    b3 == IF hasSpan THEN Drop(b2, SpanIDLen + 1) ELSE b2
                    opts == IF Len(b3) >= 2 /\ b3[1] = 2 THEN b3[2] ELSE 0
                IN  [sc |-> [TraceID |-> tid, SpanID |-> sid,
                             TraceOptions |-> opts],
                     ok |-> TRUE]

(***************************************************************************)
(* strconv.FormatInt(i, 10) and strconv.ParseInt(s, 10, 64).               *)
(***************************************************************************)
RECURSIVE FormatNat(_)
FormatNat(n) ==
    IF n < 10 THEN <<48 + n>>
    ELSE FormatNat(n \div 10) \o <<48 + (n % 10)>>

RECURSIVE FormatNatHex(_)
FormatNatHex(n) ==
    LET d == n % 16
        c == IF d < 10 THEN 48 + d ELSE 87 + d
    IN  IF n < 16 THEN <<c>> ELSE FormatNatHex(n \div 16) \o <<c>>

FormatIntHex(i) ==
    IF i < 0 THEN <<45>> \o FormatNatHex(-i) ELSE FormatNatHex(i)

FormatInt(i) == IF i < 0 THEN <<45>> \o FormatNat(-i) ELSE FormatNat(i)

IsDigits(s) == Len(s) > 0 /\ \A k \in 1..Len(s) : s[k] \in 48..57

RECURSIVE ParseNat(_)
ParseNat(s) ==
    IF Len(s) = 0 THEN 0
    ELSE ParseNat(SubSeq(s, 1, Len(s) - 1)) * 10 + (s[Len(s)] - 48)

RECURSIVE StripZeros(_)
StripZeros(d) ==
    IF Len(d) > 1 /\ d[1] = 48 THEN StripZeros(Drop(d, 1)) ELSE d

\* a and b are digit strings without leading zeros: a > b as numbers
RECURSIVE DigitsGreater(_, _)
DigitsGreater(a, b) ==
    IF Len(a) # Len(b) THEN Len(a) > Len(b)
    ELSE IF Len(a) = 0 THEN FALSE
    ELSE IF a[1] # b[1] THEN a[1] > b[1]
    ELSE DigitsGreater(Drop(a, 1), Drop(b, 1))

\* the magnitude of the digit string d does not fit into an int64
OutOfRange(d) == DigitsGreater(StripZeros(d), FormatNat(MaxInt64))

\* the value ParseInt returns, the error being dropped by its callers: 0
\* together with a syntax error, the integer of the largest magnitude and
\* of the sign of s together with a range error
ParseInt(s) ==
    IF Len(s) = 0 THEN 0
    ELSE IF s[1] = 45 \/ s[1] = 43 THEN
        LET d == Drop(s, 1)
        IN  IF ~IsDigits(d) THEN 0
            ELSE IF OutOfRange(d)
                 THEN (IF s[1] = 45 THEN -MaxInt64 - 1 ELSE MaxInt64)
            ELSE IF s[1] = 45 THEN -ParseNat(d) ELSE ParseNat(d)
    ELSE IF ~IsDigits(s) THEN 0
    ELSE IF OutOfRange(s) THEN MaxInt64
    ELSE ParseNat(s)

(***************************************************************************)
(* net/http.Header: a map from a name to the list of its values.           *)
(***************************************************************************)
HeaderNames == {headerNameOpencensusSpan, headerNameOpencensusSpanEventIDKey}

NoHeader == [k \in HeaderNames |-> <<>>]

HeaderGet(h, k) == IF Len(h[k]) = 0 THEN <<>> ELSE h[k][1]

HeaderAdd(h, k, v) == [h EXCEPT ![k] = Append(@, v)]

HeaderSet(h, k, v) == [h EXCEPT ![k] = <<v>>]

(***************************************************************************)
(* Inputs: the requests, the upstream contexts and the ids the tracer may   *)
(* hand out.                                                               *)
(***************************************************************************)
TraceIDA == [i \in 1..TraceIDLen |-> IF i = TraceIDLen THEN 255 ELSE 17]
TraceIDB == [i \in 1..TraceIDLen |-> IF i = 1 THEN 128 ELSE 0]
SpanIDP == [i \in 1..SpanIDLen |-> IF i = 1 THEN 254 ELSE 3]
SpanIDA == [i \in 1..SpanIDLen |-> IF i = SpanIDLen THEN 1 ELSE 0]
SpanIDB == [i \in 1..SpanIDLen |-> 200 + i]

\* the context of the upstream caller's span
UpstreamContext == [TraceID |-> TraceIDA, SpanID |-> SpanIDP, TraceOptions |-> 1]

\* the span id and sampling bit the tracer gives to a new span
NewSpans == {[SpanID |-> SpanIDA, TraceOptions |-> 1],
             [SpanID |-> SpanIDB, TraceOptions |-> 0]}

\* values of the X-Opencensus-Span header of an inbound request: a
\* propagated context, a propagated context cut after the trace id, a
\* propagated context followed by a character outside the alphabet, text
\* that is not base64, base64 of bytes of an unknown format version
SpanHeaderPropagated == EncodeToString(Binary(UpstreamContext))
SpanHeaderTraceIDOnly ==
    EncodeToString(Take(Binary(UpstreamContext), TraceIDLen + 2))
SpanHeaderTrailingGarbage ==
    EncodeToString(Take(Binary(UpstreamContext), TraceIDLen + SpanIDLen + 3))
    \o <<33>>
SpanHeaderNotBase64 == <<33, 33, 33, 33>>
SpanHeaderUnknownVersion == EncodeToString(<<1, 2, 3>>)

\* a body one byte longer than payloadSizeLimit, and a slice one byte
\* shorter, of bytes that differ from their neighbours
LongBody == [i \in 1..(payloadSizeLimit + 1) |-> 32 + (i % 90)]

LongSlice == [i \in 1..(payloadSizeLimit - 1) |-> 48 + (i % 70)]

\* an X-Opencensus-Event-ID header one above math.MaxInt64
EventHeaderOutOfRange == <<50, 49, 52, 55, 52, 56, 51, 54, 52, 56>>

\* an inbound request: the X-Opencensus-Span header (<<>> when absent), the
\* X-Opencensus-Event-ID header (absent, "100", "abc", out of range), the
\* body (r.Body nil, empty, "RE", LongBody), the method, the URL, the chi
\* route context (absent when the middleware is not mounted on a chi
\* router) and whether the server's response writer is an http.Flusher;
\* failAt is the number of bytes the body yields before its Read fails
\* (the connection breaks), -1 for a body that can be read to its end
Request(sh, eh, bodyNil, data, method, url, present, pat, keys, vals, fl) ==
    [spanHeader |-> sh, eventHeader |-> eh, bodyNil |-> bodyNil,
     data |-> data, Method |-> method, URL |-> url, present |-> present,
     pattern |-> pat, keys |-> keys, values |-> vals,
     isFlusher |-> fl, failAt |-> -1]

Requests ==
    {Request(<<>>, <<>>, TRUE, <<>>,
             "GET", "/test", FALSE, "", <<>>, <<>>, TRUE),
     Request(SpanHeaderPropagated, <<49, 48, 48>>, FALSE, <<82, 69>>,
             "POST", "/items/42", TRUE, "/items/{id}", <<"id">>,
             <<<<52, 50>>>>, TRUE),
     Request(SpanHeaderTraceIDOnly, <<97, 98, 99>>, FALSE, <<>>,
             "GET", "/test", TRUE, "/test", <<>>, <<>>, FALSE),
     Request(SpanHeaderTrailingGarbage, <<>>, FALSE, <<82, 69>>,
             "POST", "/items/42", FALSE, "", <<>>, <<>>, FALSE),
     Request(SpanHeaderNotBase64, EventHeaderOutOfRange, TRUE, <<>>,
             "GET", "/test", TRUE, "/test", <<>>, <<>>, TRUE),
     Request(SpanHeaderUnknownVersion, <<>>, FALSE, LongBody,
             "POST", "/items/42", TRUE, "/items/{id}", <<"id">>,
             <<<<52, 50>>>>, FALSE),
     Request(SpanHeaderPropagated, <<>>, TRUE, <<>>,
             "GET", "/test", FALSE, "", <<>>, <<>>, FALSE),
     Request(<<>>, <<49, 48, 48>>, FALSE, <<82, 69>>,
             "GET", "/test", TRUE, "/test", <<>>, <<>>, TRUE),
     [Request(<<>>, <<>>, FALSE, <<82, 69>>,
              "POST", "/items/42", TRUE, "/items/{id}", <<"id">>,
              <<<<52, 50>>>>, FALSE) EXCEPT !.failAt = 1]}

\* byte slices the handler passes to Write: "h", "i!", LongSlice
WriteSlices == {<<104>>, <<105, 33>>, LongSlice}

\* status codes the handler passes to WriteHeader
StatusCodes == {200, 400, 500}

\* sizes of the buffers the handler passes to Read
ReadSizes == {1, 2, 512}

\* values rand.Int may return, the largest one among them
EventIDs == {1234567, MaxInt64 - 1}

(***************************************************************************)
(* The state.                                                              *)
(***************************************************************************)
VARIABLES
    pc,         \* "start", "handler", "deferred", "done"
    panicking,  \* a panic is unwinding the middleware's frame
    r,          \* the inbound request: Method, URL, Header, ContentLength,
                \* route
    stream,     \* the original body stream: isNil, data, pos, closed, failAt
    w,          \* the underlying response writer (the sink)
    ww,         \* the responseWriterDecorator: buff, statusCode
    body,       \* the requestBodyDecorator: isNil, bodyBytes
    span,       \* the span opened for the request
    defers,     \* the deferred calls of the middleware's frame, a stack
    out,        \* an outgoing request built by the handler
    hist,       \* history: what the handler did and saw
    flows,      \* requests served concurrently: each one's position,
                \* request, sink, stream, object address and history
    heap        \* the objects the concurrent requests allocated: response
                \* decorators, body decorators and spans, by address

vars ==
    <<pc, panicking, r, stream, w, ww, body, span, defers, out, hist, flows,
      heap>>

\* the state of the concurrent requests
conc == <<flows, heap>>

\* the state of the single request
single == <<pc, panicking, r, stream, w, ww, body, span, defers, out, hist>>

NoSpan ==
    [open |-> FALSE, remoteParent |-> FALSE, parent |-> EmptySpanContext,
     sc |-> EmptySpanContext, name |-> "", links |-> << >>,
     attrs |-> << >>, events |-> << >>,
     status |-> [Code |-> "unset", Message |-> ""],
     ended |-> 0, calls |-> << >>]

Init ==
    /\ pc = "start"
    /\ panicking = FALSE
    /\ \E rc \in Requests :
        /\ r = [Method |-> rc.Method,
                URL |-> rc.URL,
                Header |-> [k \in HeaderNames |->
                              IF k = headerNameOpencensusSpan
                              THEN (IF rc.spanHeader = <<>> THEN <<>>
                                    ELSE <<rc.spanHeader>>)
                              ELSE (IF rc.eventHeader = <<>> THEN <<>>
                                    ELSE <<rc.eventHeader>>)],
                ContentLength |-> Len(rc.data),
                route |-> [present |-> rc.present, pattern |-> rc.pattern,
                           keys |-> rc.keys, values |-> rc.values]]
        /\ stream = [isNil |-> rc.bodyNil, data |-> rc.data, pos |-> 0,
                     closed |-> FALSE, failAt |-> rc.failAt]
        /\ w = [body |-> <<>>, codes |-> <<>>, flushes |-> 0,
                isFlusher |-> rc.isFlusher]
    /\ ww = [buff |-> <<>>, statusCode |-> 0]
    /\ body = [isNil |-> TRUE, bodyBytes |-> <<>>]
    /\ span = NoSpan
    /\ defers = <<>>
    /\ out = [Header |-> NoHeader, ContentLength |-> 7]
    /\ hist = [entryHeader |-> NoHeader, written |-> <<>>, codes |-> <<>>,
               nOps |-> 0,
               read |-> <<>>, sawEOF |-> FALSE,
               readFailed |-> FALSE, bodyFault |-> FALSE,
               finLog |-> <<>>, sent |-> <<>>, nilCtxCalls |-> 0,
               handlerPanicked |-> FALSE]
    /\ flows = <<>>
    /\ heap = [ww |-> <<>>, body |-> <<>>, span |-> <<>>]

(***************************************************************************)
(* The tracer's span, as the calls the middleware makes on it.             *)
(***************************************************************************)
StartSpan(sc) ==
    [NoSpan EXCEPT !.open = TRUE, !.sc = sc]

StartSpanWithRemoteParent(parent, sc) ==
    [NoSpan EXCEPT !.open = TRUE, !.remoteParent = TRUE, !.parent = parent,
                   !.sc = sc]

AddLink(s, link) ==
    [s EXCEPT !.links = Append(@, link), !.calls = Append(@, "AddLink")]

SetName(s, name) ==
    [s EXCEPT !.name = name, !.calls = Append(@, "SetName")]

AddAttributes(s, key, value) ==
    [s EXCEPT !.attrs = Append(@, [key |-> key, value |-> value]),
              !.calls = Append(@, "AddAttributes")]

AddMessageReceiveEventAsSend(s, id, size, csize) ==
    [s EXCEPT !.events = Append(@, [type |-> "sent", id |-> id,
                                    size |-> size, csize |-> csize]),
              !.calls = Append(@, "AddMessageSendEvent")]

AddMessageReceiveEvent(s, id, size, csize) ==
    [s EXCEPT !.events = Append(@, [type |-> "recv", id |-> id,
                                    size |-> size, csize |-> csize]),
              !.calls = Append(@, "AddMessageReceiveEvent")]

AddMessageSendEvent(s, id, size, csize) ==
    [s EXCEPT !.events = Append(@, [type |-> "sent", id |-> id,
                                    size |-> size, csize |-> csize]),
              !.calls = Append(@, "AddMessageSendEvent")]

SetStatus(s, code, message) ==
    [s EXCEPT !.status = [Code |-> code, Message |-> message],
              !.calls = Append(@, "SetStatus")]

End(s) ==
    [s EXCEPT !.ended = @ + 1, !.calls = Append(@, "End")]

\* the value of an attribute: the last one added under the key
HasAttr(s, key) == \E i \in 1..Len(s.attrs) : s.attrs[i].key = key

AttrValue(s, key) ==
    LET I == {i \in 1..Len(s.attrs) : s.attrs[i].key = key}
        m == CHOOSE i \in I : \A j \in I : j <= i
    IN  s.attrs[m].value

(***************************************************************************)
(* The decorators.                                                         *)
(***************************************************************************)
decorateResponseWriter(sink) == [buff |-> <<>>, statusCode |-> 0]

\* Write appends to the buffer and forwards to the sink, which accepts the
\* first n bytes (all of them, or it fails before the last one); the sink's
\* (n, err) is returned.
ResponseWriteOverwriting(d, sink, bytes, n) ==
    [d |-> [d EXCEPT !.buff = bytes],
     w |-> [sink EXCEPT !.body = @ \o Take(bytes, n)],
     n |-> n,
     err |-> n < Len(bytes)]

ResponseWrite(d, sink, bytes, n) ==
    [d |-> [d EXCEPT !.buff = @ \o bytes],
     w |-> [sink EXCEPT !.body = @ \o Take(bytes, n)],
     n |-> n,
     err |-> n < Len(bytes)]

ResponseWriteHeaderFirstSet(d, sink, statusCode) ==
    [d |-> IF d.statusCode = 0 THEN [d EXCEPT !.statusCode = statusCode]
           ELSE d,
     w |-> [sink EXCEPT !.codes = Append(@, statusCode)]]

ResponseWriteHeader(d, sink, statusCode) ==
    [d |-> [d EXCEPT !.statusCode = statusCode],
     w |-> [sink EXCEPT !.codes = Append(@, statusCode)]]

ResponseFlush(d, sink) ==
    IF sink.isFlusher THEN [sink EXCEPT !.flushes = @ + 1] ELSE sink

Payload(d) == d.buff

StatusCode(d) == d.statusCode

decorateRequestBody(st) ==
    IF st.isNil
    THEN [isNil |-> TRUE, bodyBytes |-> <<>>]
    ELSE [isNil |-> FALSE, bodyBytes |-> <<>>]

\* the number of bytes the original stream yields
StreamEnd(st) == IF st.failAt >= 0 THEN st.failAt ELSE Len(st.data)

\* a Read of the original stream into a buffer of k bytes that yields n
\* bytes: io.EOF at the end of the data, an error after Close and where
\* the stream breaks
StreamRead(st, k, n) ==
    [st |-> [st EXCEPT !.pos = @ + n],
     p |-> SubSeq(st.data, st.pos + 1, st.pos + n),
     n |-> n,
     err |-> IF st.closed THEN "closed"
             ELSE IF st.failAt >= 0 /\ st.pos = st.failAt THEN "failed"
             ELSE IF st.pos = Len(st.data) THEN "EOF"
             ELSE "nil"]

\* Read forwards to the original stream and appends the n bytes it got to
\* bodyBytes; the handler sees p[0:n] and (n, err)
RequestReadShort(d, st, k, n) ==
    LET got == StreamRead(st, k, n)
        m == IF got.n > 1 THEN got.n - 1 ELSE got.n
    IN  [d |-> [d EXCEPT !.bodyBytes = @ \o Take(got.p, m)],
         st |-> got.st,
         p |-> Take(got.p, m),
         n |-> m,
         err |-> got.err]

RequestReadWholeBuffer(d, st, k, n) ==
    LET got == StreamRead(st, k, n)
    IN  [d |-> [d EXCEPT !.bodyBytes = @ \o Take(got.p, got.n)
                                         \o Repeat(0, k - got.n)],
         st |-> got.st,
         p |-> Take(got.p, got.n),
         n |-> got.n,
         err |-> got.err]

RequestRead(d, st, k, n) ==
    LET got == StreamRead(st, k, n)
    IN  [d |-> [d EXCEPT !.bodyBytes = @ \o Take(got.p, got.n)],
         st |-> got.st,
         p |-> Take(got.p, got.n),
         n |-> got.n,
         err |-> got.err]

RequestClose(d, st) == [st EXCEPT !.closed = TRUE]

RequestPayload(d) == d.bodyBytes

(***************************************************************************)
(* The middleware's functions.                                             *)
(***************************************************************************)
setSpanHeaderRaw(sc, h) ==
    HeaderSet(h, headerNameOpencensusSpan, RawEncodeToString(Binary(sc)))

setSpanHeader(sc, h) ==
    HeaderSet(h, headerNameOpencensusSpan, EncodeToString(Binary(sc)))

getSpanContextIgnoringError(h) ==
    LET b64 == HeaderGet(h, headerNameOpencensusSpan)
    IN  IF b64 = <<>> THEN [sc |-> EmptySpanContext, ok |-> FALSE]
        ELSE FromBinary(DecodeString(b64).bin)

getSpanContext(h) ==
    LET b64 == HeaderGet(h, headerNameOpencensusSpan)
        dec == DecodeString(b64)
    IN  IF b64 = <<>> THEN [sc |-> EmptySpanContext, ok |-> FALSE]
        ELSE IF dec.err THEN [sc |-> EmptySpanContext, ok |-> FALSE]
        ELSE FromBinary(dec.bin)

closeSpanNoEnd(s, d) ==
    IF StatusCode(d) < 400
    THEN SetStatus(s, "OK", "OK")
    ELSE SetStatus(s, "Unknown",
                   "Response status code: " \o ToString(StatusCode(d)))

closeSpanOffByOne(s, d) ==
    IF StatusCode(d) <= 400
    THEN End(SetStatus(s, "OK", "OK"))
    ELSE End(SetStatus(s, "Unknown",
                       "Response status code: " \o ToString(StatusCode(d))))

closeSpan(s, d) ==
    IF StatusCode(d) < 400
    THEN End(SetStatus(s, "OK", "OK"))
    ELSE End(SetStatus(s, "Unknown",
                       "Response status code: " \o ToString(StatusCode(d))))

addSpanMessageReceiveEventSwapped(s, req) ==
    LET eIDString == HeaderGet(req.Header, headerNameOpencensusSpanEventIDKey)
        eID == ParseInt(eIDString)
    IN  AddMessageReceiveEvent(s, eID, 0, req.ContentLength)

addSpanMessageReceiveEvent(s, req) ==
    LET eIDString == HeaderGet(req.Header, headerNameOpencensusSpanEventIDKey)
        eID == ParseInt(eIDString)
    IN  AddMessageReceiveEvent(s, eID, req.ContentLength, 0)

\* rnd is what crypto/rand gives: an error, or a value below math.MaxInt64
generateEventIDFailing(rnd) == IF rnd.err THEN -1 ELSE rnd.val

generateEventID(rnd) == IF rnd.err THEN 0 ELSE rnd.val

addSpanMessageSentEventNoSize(s, req, rnd) ==
    LET eID == generateEventID(rnd)
        eIDString == FormatInt(eID)
    IN  [Header |-> HeaderSet(req.Header, headerNameOpencensusSpanEventIDKey,
                              eIDString),
         span |-> AddMessageSendEvent(s, eID, 0, 0)]

addSpanMessageSentEventZeroID(s, req, rnd) ==
    LET eID == generateEventID(rnd)
        eIDString == FormatInt(eID)
    IN  [Header |-> HeaderSet(req.Header, headerNameOpencensusSpanEventIDKey,
                              eIDString),
         span |-> AddMessageSendEvent(s, 0, req.ContentLength, 0)]

addSpanMessageSentEvent(s, req, rnd) ==
    LET eID == generateEventID(rnd)
        eIDString == FormatInt(eID)
    IN  [Header |-> HeaderSet(req.Header, headerNameOpencensusSpanEventIDKey,
                              eIDString),
         span |-> AddMessageSendEvent(s, eID, req.ContentLength, 0)]

TruncatedPayloadOverlong(payload) ==
    IF Len(payload) > payloadSizeLimit
    THEN Take(payload, payloadSizeLimit) \o payloadTruncatedMessage
    ELSE payload

TruncatedPayload(payload) ==
    IF Len(payload) > payloadSizeLimit
    THEN Take(payload, payloadSizeLimit - Len(payloadTruncatedMessage))
         \o payloadTruncatedMessage
    ELSE payload

setSpanRequestPayloadAttributeSkippingNil(s, d) ==
    IF d.isNil THEN s
    ELSE AddAttributes(s, spanRequestPayloadAttributeKey,
                       TruncatedPayload(RequestPayload(d)))

setSpanRequestPayloadAttribute(s, d) ==
    LET payload == IF ~d.isNil THEN RequestPayload(d) ELSE <<>>
    IN  AddAttributes(s, spanRequestPayloadAttributeKey,
                      TruncatedPayload(payload))

setSpanResponsePayloadAttribute(s, d) ==
    AddAttributes(s, spanResponsePayloadAttributeKey,
                  TruncatedPayload(Payload(d)))

RECURSIVE AddURLParams(_, _, _)
AddURLParams(s, keys, values) ==
    IF Len(keys) = 0 THEN s
    ELSE AddURLParams(AddAttributes(s, keys[1], values[1]),
                      Drop(keys, 1), Drop(values, 1))

\* chi.RouteContext is nil when the request carries no route context: the
\* nil receiver faults in RoutePattern, or (a chi build whose RoutePattern
\* guards the nil receiver, nilGuard) after SetName at rCtx.URLParams
setSpanNameFromURL(s, req, nilGuard) ==
    IF ~req.route.present
    THEN [span |-> IF nilGuard THEN SetName(s, "[" \o req.Method \o "] ")
                   ELSE s,
          panic |-> TRUE]
    ELSE [span |-> AddURLParams(
                       SetName(s, "[" \o req.Method \o "] " \o req.URL),
                       req.route.keys, req.route.values),
          panic |-> FALSE]

setSpanNameAndURLAttributes(s, req, nilGuard) ==
    IF ~req.route.present
    THEN [span |-> IF nilGuard THEN SetName(s, "[" \o req.Method \o "] ")
                   ELSE s,
          panic |-> TRUE]
    ELSE [span |-> AddURLParams(
                       SetName(s, "[" \o req.Method \o "] "
                                  \o req.route.pattern),
                       req.route.keys, req.route.values),
          panic |-> FALSE]

\* AddTracingSpanToRequest on the span of its context (hasSpan: the context
\* carries one) and the request req; yields the request's header and the
\* span
PropagateSpanDecoratingFirst(hasSpan, s, req, rnd) ==
    LET sent == addSpanMessageSentEvent(s, req, rnd)
    IN  IF ~hasSpan
        THEN [Header |-> sent.Header, span |-> s]
        ELSE [Header |-> setSpanHeader(s.sc, sent.Header),
              span |-> sent.span]

PropagateSpan(hasSpan, s, req, rnd) ==
    IF ~hasSpan
    THEN [Header |-> req.Header, span |-> s]
    ELSE LET sent == addSpanMessageSentEvent(s, req, rnd)
         IN  [Header |-> setSpanHeader(s.sc, sent.Header),
              span |-> sent.span]

\* the deferred calls in the order the defer statements register them
DeferOrderAsRun ==
    <<"setSpanNameAndURLAttributes", "addSpanMessageReceiveEvent",
      "setSpanRequestPayloadAttribute", "setSpanResponsePayloadAttribute",
      "closeSpan">>

DeferOrder ==
    <<"closeSpan", "setSpanResponsePayloadAttribute",
      "setSpanRequestPayloadAttribute", "addSpanMessageReceiveEvent",
      "setSpanNameAndURLAttributes">>

\* the span the middleware opens: a linked child of the decoded context,
\* or a standalone span
OpenSpanNoLink(h, new) ==
    LET got == getSpanContext(h)
    IN  IF got.ok
        THEN StartSpanWithRemoteParent(got.sc,
                 [TraceID |-> got.sc.TraceID, SpanID |-> new.SpanID,
                  TraceOptions |-> new.TraceOptions])
        ELSE StartSpan([TraceID |-> TraceIDB, SpanID |-> new.SpanID,
                        TraceOptions |-> new.TraceOptions])

OpenSpan(h, new) ==
    LET got == getSpanContext(h)
    IN  IF got.ok
        THEN AddLink(
                 StartSpanWithRemoteParent(got.sc,
                     [TraceID |-> got.sc.TraceID, SpanID |-> new.SpanID,
                      TraceOptions |-> new.TraceOptions]),
                 [TraceID |-> got.sc.TraceID, SpanID |-> got.sc.SpanID,
                  Type |-> "LinkTypeParent"])
        ELSE StartSpan([TraceID |-> TraceIDB, SpanID |-> new.SpanID,
                        TraceOptions |-> new.TraceOptions])

(***************************************************************************)
(* Actions.  The middleware's entry, up to the call of next.ServeHTTP.      *)
(***************************************************************************)
OpencensusTracing ==
    /\ pc = "start"
    /\ \E new \in NewSpans :
        span' = OpenSpan(r.Header, new)
    /\ ww' = decorateResponseWriter(w)
    /\ body' = decorateRequestBody(stream)
    /\ defers' = DeferOrder
    /\ hist' = [hist EXCEPT !.entryHeader = r.Header]
    /\ pc' = "handler"
    /\ UNCHANGED <<panicking, r, stream, w, out>>
    /\ UNCHANGED conc

(***************************************************************************)
(* The downstream handler: calls on the decorated writer and body.         *)
(***************************************************************************)
HandlerWrite ==
    /\ pc = "handler"
    /\ hist.nOps < MaxOps
    /\ \E bytes \in WriteSlices : \E n \in {Len(bytes) - 1, Len(bytes)} :
        LET res == ResponseWrite(ww, w, bytes, n)
        IN  /\ ww' = res.d
            /\ w' = res.w
            /\ hist' = [hist EXCEPT !.written = @ \o bytes,
                                    !.nOps = @ + 1]
    /\ UNCHANGED <<pc, panicking, r, stream, body, span, defers, out>>
    /\ UNCHANGED conc

HandlerWriteHeader ==
    /\ pc = "handler"
    /\ hist.nOps < MaxOps
    /\ \E code \in StatusCodes :
        LET res == ResponseWriteHeader(ww, w, code)
        IN  /\ ww' = res.d
            /\ w' = res.w
            /\ hist' = [hist EXCEPT !.codes = Append(@, code),
                                    !.nOps = @ + 1]
    /\ UNCHANGED <<pc, panicking, r, stream, body, span, defers, out>>
    /\ UNCHANGED conc

HandlerHeader ==
    /\ pc = "handler"
    /\ hist.nOps < MaxOps
    /\ hist' = [hist EXCEPT !.nOps = @ + 1]
    /\ UNCHANGED <<pc, panicking, r, stream, w, ww, body, span, defers, out>>
    /\ UNCHANGED conc

HandlerFlush ==
    /\ pc = "handler"
    /\ hist.nOps < MaxOps
    /\ w' = ResponseFlush(ww, w)
    /\ hist' = [hist EXCEPT !.nOps = @ + 1]
    /\ UNCHANGED <<pc, panicking, r, stream, ww, body, span, defers, out>>
    /\ UNCHANGED conc

\* a call on the nil decorator dereferences nil: the handler panics
HandlerRead ==
    /\ pc = "handler"
    /\ hist.nOps < MaxOps
    /\ IF body.isNil
       THEN /\ pc' = "deferred"
            /\ panicking' = TRUE
            /\ hist' = [hist EXCEPT !.handlerPanicked = TRUE,
                                    !.bodyFault = TRUE, !.nOps = @ + 1]
            /\ UNCHANGED <<body, stream>>
       ELSE /\ \E k \in ReadSizes :
                LET avail == Min(k, StreamEnd(stream) - stream.pos)
                IN  \E n \in (IF stream.closed \/ avail = 0 THEN {0}
                              ELSE {avail - 1, avail} \ {0}) :
                    LET res == RequestRead(body, stream, k, n)
                    IN  /\ body' = res.d
                        /\ stream' = res.st
                        /\ hist' = [hist EXCEPT
                                      !.read = @ \o res.p,
                                      !.sawEOF = @ \/ res.err = "EOF",
                                      !.readFailed =
                                          @ \/ res.err = "failed",
                                      !.nOps = @ + 1]
            /\ UNCHANGED <<pc, panicking>>
    /\ UNCHANGED <<r, w, ww, span, defers, out>>
    /\ UNCHANGED conc

HandlerClose ==
    /\ pc = "handler"
    /\ hist.nOps < MaxOps
    /\ IF body.isNil
       THEN /\ pc' = "deferred"
            /\ panicking' = TRUE
            /\ hist' = [hist EXCEPT !.handlerPanicked = TRUE,
                                    !.bodyFault = TRUE, !.nOps = @ + 1]
            /\ UNCHANGED stream
       ELSE /\ stream' = RequestClose(body, stream)
            /\ hist' = [hist EXCEPT !.nOps = @ + 1]
            /\ UNCHANGED <<pc, panicking>>
    /\ UNCHANGED <<r, w, ww, body, span, defers, out>>
    /\ UNCHANGED conc

\* AddTracingSpanToRequest(ctx, req): ctx is the handler's context (it
\* carries the span) or one without a span; req is the inbound request
\* itself (the handler's copy shares its header map) or an outgoing one
AddTracingSpanToRequest ==
    /\ pc = "handler"
    /\ hist.nOps < MaxOps
    /\ \E hasSpan \in BOOLEAN, target \in {"in", "out"},
          rnd \in {[err |-> TRUE, val |-> 0]}
                  \cup {[err |-> FALSE, val |-> v] : v \in EventIDs} :
        LET req == IF target = "in" THEN r ELSE out
            res == PropagateSpan(hasSpan, span, req, rnd)
        IN  /\ span' = res.span
            /\ r' = IF target = "in" THEN [r EXCEPT !.Header = res.Header]
                    ELSE r
            /\ out' = IF target = "out"
                      THEN [out EXCEPT !.Header = res.Header]
                      ELSE out
            /\ hist' = IF hasSpan
                       THEN [hist EXCEPT
                               !.nOps = @ + 1,
                               !.sent =
                                 Append(@, [target |-> target,
                                            sc |-> span.sc,
                                            rnd |-> rnd,
                                            eID |-> generateEventID(rnd)])]
                       ELSE [hist EXCEPT !.nOps = @ + 1,
                                         !.nilCtxCalls = @ + 1]
    /\ UNCHANGED <<pc, panicking, stream, w, ww, body, defers>>
    /\ UNCHANGED conc

HandlerReturn ==
    /\ pc = "handler"
    /\ pc' = "deferred"
    /\ UNCHANGED <<panicking, r, stream, w, ww, body, span, defers, out, hist>>
    /\ UNCHANGED conc

HandlerPanic ==
    /\ pc = "handler"
    /\ pc' = "deferred"
    /\ panicking' = TRUE
    /\ hist' = [hist EXCEPT !.handlerPanicked = TRUE]
    /\ UNCHANGED <<r, stream, w, ww, body, span, defers, out>>
    /\ UNCHANGED conc

(***************************************************************************)
(* The deferred calls: the top of the stack runs, also while a panic       *)
(* unwinds; a panic in a deferred call does not stop the remaining ones.   *)
(***************************************************************************)
Top(stack) == stack[Len(stack)]

Pop(stack) == SubSeq(stack, 1, Len(stack) - 1)

RunDeferred(name) ==
    /\ pc = "deferred"
    /\ Len(defers) > 0
    /\ Top(defers) = name
    /\ defers' = Pop(defers)
    /\ hist' = [hist EXCEPT !.finLog = Append(@, name)]
    /\ UNCHANGED conc

DeferredSetSpanNameAndURLAttributesAborting ==
    /\ pc = "deferred"
    /\ Len(defers) > 0
    /\ Top(defers) = "setSpanNameAndURLAttributes"
    /\ hist' = [hist EXCEPT !.finLog =
                                Append(@, "setSpanNameAndURLAttributes")]
    /\ \E nilGuard \in BOOLEAN :
        LET res == setSpanNameAndURLAttributes(span, r, nilGuard)
        IN  /\ span' = res.span
            /\ panicking' = (panicking \/ res.panic)
            /\ defers' = IF res.panic THEN <<>> ELSE Pop(defers)
    /\ UNCHANGED <<pc, r, stream, w, ww, body, out>>
    /\ UNCHANGED conc

DeferredSetSpanNameAndURLAttributes ==
    /\ RunDeferred("setSpanNameAndURLAttributes")
    /\ \E nilGuard \in BOOLEAN :
        LET res == setSpanNameAndURLAttributes(span, r, nilGuard)
        IN  /\ span' = res.span
            /\ panicking' = (panicking \/ res.panic)
    /\ UNCHANGED <<pc, r, stream, w, ww, body, out>>

DeferredAddSpanMessageReceiveEvent ==
    /\ RunDeferred("addSpanMessageReceiveEvent")
    /\ span' = addSpanMessageReceiveEvent(span, r)
    /\ UNCHANGED <<pc, panicking, r, stream, w, ww, body, out>>

DeferredSetSpanRequestPayloadAttribute ==
    /\ RunDeferred("setSpanRequestPayloadAttribute")
    /\ span' = setSpanRequestPayloadAttribute(span, body)
    /\ UNCHANGED <<pc, panicking, r, stream, w, ww, body, out>>

DeferredSetSpanResponsePayloadAttribute ==
    /\ RunDeferred("setSpanResponsePayloadAttribute")
    /\ span' = setSpanResponsePayloadAttribute(span, ww)
    /\ UNCHANGED <<pc, panicking, r, stream, w, ww, body, out>>

DeferredCloseSpan ==
    /\ RunDeferred("closeSpan")
    /\ span' = closeSpan(span, ww)
    /\ UNCHANGED <<pc, panicking, r, stream, w, ww, body, out>>

\* the middleware's frame is left: a return, or the panic goes on unwinding
Return ==
    /\ pc = "deferred"
    /\ Len(defers) = 0
    /\ pc' = "done"
    /\ UNCHANGED <<panicking, r, stream, w, ww, body, span, defers, out, hist>>
    /\ UNCHANGED conc

Next ==
    \/ OpencensusTracing
    \/ HandlerWrite
    \/ HandlerWriteHeader
    \/ HandlerHeader
    \/ HandlerFlush
    \/ HandlerRead
    \/ HandlerClose
    \/ AddTracingSpanToRequest
    \/ HandlerReturn
    \/ HandlerPanic
    \/ DeferredSetSpanNameAndURLAttributes
    \/ DeferredAddSpanMessageReceiveEvent
    \/ DeferredSetSpanRequestPayloadAttribute
    \/ DeferredSetSpanResponsePayloadAttribute
    \/ DeferredCloseSpan
    \/ Return

Spec == Init /\ [][Next]_vars

(***************************************************************************)
(* Properties.                                                             *)
(***************************************************************************)
Entered == pc # "start"

EntrySpanHeader == HeaderGet(hist.entryHeader, headerNameOpencensusSpan)

ParentLink(sc) ==
    [TraceID |-> sc.TraceID, SpanID |-> sc.SpanID, Type |-> "LinkTypeParent"]

\* C1: the span opened at request entry is ended exactly once by the time
\* the middleware's frame is left, by a return or by a panic unwinding it; it
\* is never ended twice.
C1_SpanEndedExactlyOnce ==
    /\ Entered => span.open
    /\ span.ended <= 1
    /\ pc = "done" => span.ended = 1

C1_Witness ==
    /\ pc = "done"
    /\ panicking
    /\ hist.handlerPanicked
    /\ span.ended = 1

\* the order in which finalization is to run
FinalizationSteps ==
    <<"setSpanNameAndURLAttributes", "addSpanMessageReceiveEvent",
      "setSpanRequestPayloadAttribute", "setSpanResponsePayloadAttribute",
      "closeSpan">>

\* the calls finalization makes on the span, after those made at entry
\* (AddLink) and by the handler (AddMessageSendEvent)
FinalizationCalls == Drop(span.calls, Len(span.links) + Len(hist.sent))

FinalizationTail ==
    <<"AddMessageReceiveEvent", "AddAttributes", "AddAttributes",
      "SetStatus", "End">>

\* C2: finalization runs (a) name and URL-parameter attributes, (b) the
\* message-received event, (c) request_payload, (d) response_payload,
\* (e) status and End, in this order; End is the last call on the span.
C2_FinalizationOrder ==
    /\ pc \in {"deferred", "done"} =>
           hist.finLog = Take(FinalizationSteps, Len(hist.finLog))
    /\ span.ended > 0 => span.calls[Len(span.calls)] = "End"
    /\ pc = "done" =>
        /\ hist.finLog = FinalizationSteps
        /\ IF r.route.present
           THEN FinalizationCalls =
                    <<"SetName">>
                    \o [i \in 1..Len(r.route.keys) |-> "AddAttributes"]
                    \o FinalizationTail
           ELSE FinalizationCalls \in
                    {FinalizationTail, <<"SetName">> \o FinalizationTail}
        /\ Len(span.attrs) >= 2
        /\ span.attrs[Len(span.attrs) - 1].key = spanRequestPayloadAttributeKey
        /\ span.attrs[Len(span.attrs)].key = spanResponsePayloadAttributeKey

C2_Witness ==
    /\ pc = "done"
    /\ ~panicking
    /\ Len(r.route.keys) > 0
    /\ Len(hist.sent) > 0
    /\ span.calls[Len(span.calls)] = "End"

\* C3: the span is a remote-parented child carrying exactly one link of type
\* parent with the decoded trace id and span id if and only if the
\* X-Opencensus-Span header of the request decodes; otherwise it is a
\* standalone span without a link.
C3_ParentLinkIffDecoded ==
    Entered =>
        LET got == getSpanContext(hist.entryHeader)
        IN  /\ IF got.ok
               THEN /\ span.remoteParent
                    /\ span.parent = got.sc
                    /\ span.sc.TraceID = got.sc.TraceID
                    /\ span.links = <<ParentLink(got.sc)>>
               ELSE /\ ~span.remoteParent
                    /\ span.links = <<>>
            /\ EntrySpanHeader = SpanHeaderPropagated =>
                   /\ span.parent = UpstreamContext
                   /\ span.links = <<ParentLink(UpstreamContext)>>

C3_Witness ==
    /\ pc = "done"
    /\ span.remoteParent
    /\ span.parent = UpstreamContext
    /\ Len(span.links) = 1
    /\ span.links[1].SpanID = SpanIDP

\* C4: Payload() of the response decorator is the concatenation of the
\* byte slices passed to Write, in call order, whatever else was called.
C4_PayloadIsConcatenation == Entered => Payload(ww) = hist.written

C4_Witness ==
    /\ Payload(ww) = <<105, 33, 104>>
    /\ hist.nOps = 2

\* C5: the accumulator of the response decorator is identical to the bytes
\* sent through the underlying sink, also when the sink fails or accepts
\* fewer bytes than given.
C5_AccumulatorEqualsSent == Entered => Payload(ww) = w.body

\* C6: StatusCode() reports 200 as long as WriteHeader was never called.
C6_DefaultStatusCode200 ==
    (Entered /\ Len(w.codes) = 0) => StatusCode(ww) = 200

\* C7: the bytes the handler has read from the decorated body followed by
\* the bytes still readable are the original body, and reading to the end of
\* the stream yields exactly the original body.
C7_ReadsYieldOriginalBody ==
    (Entered /\ ~body.isNil) =>
        /\ hist.read \o Drop(stream.data, stream.pos) = stream.data
        /\ Len(hist.read) + (Len(stream.data) - stream.pos) = Len(stream.data)
        /\ hist.sawEOF => hist.read = stream.data

C7_Witness ==
    /\ hist.sawEOF
    /\ hist.read = <<82, 69>>
    /\ ~stream.closed

\* C8: Payload() of the request decorator is the complete original body
\* however much of it the handler has read.
C8_PayloadIsWholeBody ==
    (Entered /\ ~body.isNil) => RequestPayload(body) = stream.data

\* the header values that are absent, not base64, or not a trace context
UndecodableSpanHeaders ==
    {<<>>, SpanHeaderNotBase64, SpanHeaderUnknownVersion,
     SpanHeaderTrailingGarbage}

\* C9: for an empty header, a value that is not base64 or bytes that are no
\* trace context the decode reports not-found without a failure: the
\* handler is reached with a standalone span.
C9_UndecodableHeaderIsNoParent ==
    /\ (pc = "handler" /\ hist.nOps = 0) => ~panicking
    /\ (Entered /\ EntrySpanHeader \in UndecodableSpanHeaders) =>
           /\ ~getSpanContext(hist.entryHeader).ok
           /\ span.open
           /\ ~span.remoteParent
           /\ span.parent = EmptySpanContext
           /\ span.links = <<>>

C9_Witness ==
    /\ pc = "done"
    /\ EntrySpanHeader = SpanHeaderTrailingGarbage
    /\ ~span.remoteParent
    /\ span.ended = 1

\* C10: a context written by setSpanHeader onto a request is read back by
\* getSpanContext from that request as found, and equal.
C10_RoundTrip ==
    \A i \in 1..Len(hist.sent) :
        LET req == IF hist.sent[i].target = "in" THEN r ELSE out
        IN  getSpanContext(req.Header) = [sc |-> hist.sent[i].sc, ok |-> TRUE]

C10_Witness ==
    /\ Len(hist.sent) > 0
    /\ hist.sent[1].target = "out"
    /\ hist.sent[1].sc.TraceID = TraceIDB
    /\ hist.sent[1].sc.TraceOptions = 0
    /\ getSpanContext(out.Header).ok

(***************************************************************************)
(* Message events.                                                         *)
(***************************************************************************)
SentEvents == SelectSeq(span.events, LAMBDA e : e.type = "sent")

RecvEvents == SelectSeq(span.events, LAMBDA e : e.type = "recv")

\* the calls of AddTracingSpanToRequest with a span on the inbound request,
\* as indices of hist.sent
SentToInbound == {i \in 1..Len(hist.sent) : hist.sent[i].target = "in"}

LastSentToInbound == CHOOSE i \in SentToInbound : \A j \in SentToInbound : j <= i

EntryEventHeader == hist.entryHeader[headerNameOpencensusSpanEventIDKey]

\* C11: when AddTracingSpanToRequest minted the event id E and set it in
\* the X-Opencensus-Event-ID header of the request the middleware finalizes,
\* and nothing changed the header afterwards, the message-received event
\* carries the message id E, the id of the message-sent event the sender
\* recorded; so does a request that arrived with the header "100" a sender
\* wrote for E = 100
C11_EventCorrelation ==
    pc = "done" =>
        /\ SentToInbound # {} =>
            LET E == hist.sent[LastSentToInbound].eID
            IN  /\ Len(RecvEvents) = 1
                /\ RecvEvents[1].id = E
                /\ SentEvents[LastSentToInbound].id = E
        /\ (SentToInbound = {} /\ EntryEventHeader = <<<<49, 48, 48>>>>) =>
            /\ Len(RecvEvents) = 1
            /\ RecvEvents[1].id = 100

C11_Witness ==
    /\ pc = "done"
    /\ SentToInbound # {}
    /\ hist.sent[LastSentToInbound].eID = MaxInt64 - 1
    /\ RecvEvents[1].id = MaxInt64 - 1
    /\ SentEvents[LastSentToInbound].id = MaxInt64 - 1

\* s is a decimal 64-bit integer: an optional sign, digits, within range
ParseableInt64(s) ==
    /\ Len(s) > 0
    /\ LET d == IF s[1] = 45 \/ s[1] = 43 THEN Drop(s, 1) ELSE s
       IN  IsDigits(d) /\ ~OutOfRange(d)

\* C12: finalization records exactly one message-received event; when the
\* X-Opencensus-Event-ID header is absent or is not a parseable decimal
\* 64-bit integer, the event's message id is 0
C12_MalformedEventHeaderIsZero ==
    pc = "done" =>
        /\ Len(RecvEvents) = 1
        /\ ~ParseableInt64(HeaderGet(r.Header,
                                     headerNameOpencensusSpanEventIDKey))
           => RecvEvents[1].id = 0

C14_NoSpanIsNoOp ==
    [][hist'.nilCtxCalls > hist.nilCtxCalls =>
          /\ r' = r
          /\ out' = out
          /\ span' = span
          /\ hist'.sent = hist.sent]_vars

C14_Witness ==
    /\ hist.nilCtxCalls = MaxOps
    /\ hist.sent = <<>>
    /\ r.Header = hist.entryHeader
    /\ out.Header = NoHeader
    /\ SentEvents = <<>>

\* the request the i-th call of AddTracingSpanToRequest with a span was
\* made on
SentRequest(i) == IF hist.sent[i].target = "in" THEN r ELSE out

\* the last call with a span on the same request as the i-th one
LastOnSameRequest(i) ==
    \A j \in 1..Len(hist.sent) :
        hist.sent[j].target = hist.sent[i].target => j <= i

\* s is the decimal string of the non-negative integer n
IsDecimalOf(s, n) ==
    /\ IsDigits(s)
    /\ Len(s) > 1 => s[1] # 48
    /\ ParseNat(s) = n

\* C15: with a span in the context, each call of AddTracingSpanToRequest
\* records exactly one message-sent event on it, of uncompressed size the
\* request's content length and compressed size 0, sets the request's
\* X-Opencensus-Event-ID header to the decimal string of that event's id,
\* and sets X-Opencensus-Span to the encoding of the span's context
C15_SentEventAndHeaders ==
    /\ Len(SentEvents) = Len(hist.sent)
    /\ \A i \in 1..Len(hist.sent) :
        /\ SentEvents[i].size = SentRequest(i).ContentLength
        /\ SentEvents[i].csize = 0
        /\ LastOnSameRequest(i) =>
            /\ SentRequest(i).Header[headerNameOpencensusSpanEventIDKey] # <<>>
            /\ IsDecimalOf(
                 HeaderGet(SentRequest(i).Header,
                           headerNameOpencensusSpanEventIDKey),
                 SentEvents[i].id)
            /\ SentRequest(i).Header[headerNameOpencensusSpan]
                 = <<EncodeToString(Binary(span.sc))>>

C15_Witness ==
    /\ Len(hist.sent) = 1
    /\ hist.sent[1].target = "out"
    /\ SentEvents = <<[type |-> "sent", id |-> 1234567,
                       size |-> 7, csize |-> 0]>>
    /\ out.Header[headerNameOpencensusSpanEventIDKey]
         = <<<<49, 50, 51, 52, 53, 54, 55>>>>
    /\ out.Header[headerNameOpencensusSpan] # <<>>

(***************************************************************************)
(* Payload attributes.                                                     *)
(***************************************************************************)
\* value is the truncation of payload: as long as the limit, the head of
\* the payload followed by the marker
IsTruncationOf(value, payload) ==
    LET keep == payloadSizeLimit - Len(payloadTruncatedMessage)
    IN  /\ Len(value) = payloadSizeLimit
        /\ SubSeq(value, 1, keep) = SubSeq(payload, 1, keep)
        /\ SubSeq(value, keep + 1, payloadSizeLimit) = payloadTruncatedMessage

\* C16: when the captured request payload (what the handler read) or the
\* captured response payload (what it wrote) is longer than 256 bytes, the
\* attribute is the first 256 - Len(marker) bytes followed by the marker:
\* 256 bytes that end with the marker
C16_LongPayloadTruncated ==
    pc = "done" =>
        /\ Len(hist.read) > payloadSizeLimit =>
            /\ HasAttr(span, spanRequestPayloadAttributeKey)
            /\ IsTruncationOf(AttrValue(span, spanRequestPayloadAttributeKey),
                              hist.read)
        /\ Len(hist.written) > payloadSizeLimit =>
            /\ HasAttr(span, spanResponsePayloadAttributeKey)
            /\ IsTruncationOf(AttrValue(span, spanResponsePayloadAttributeKey),
                              hist.written)

C16_Witness ==
    /\ pc = "done"
    /\ hist.written = LongSlice \o <<105, 33>>
    /\ Len(AttrValue(span, spanResponsePayloadAttributeKey)) = 256
    /\ AttrValue(span, spanResponsePayloadAttributeKey)[225] = LongSlice[225]
    /\ AttrValue(span, spanResponsePayloadAttributeKey)[226] = 46

\* the number of attributes of the span that have the key
AttrCount(key) ==
    Cardinality({i \in 1..Len(span.attrs) : span.attrs[i].key = key})

CallsOf(name) == {i \in 1..Len(span.calls) : span.calls[i] = name}

\* C18: the span's status follows the response decorator's status code: a
\* code below 400 gives the code OK and the message "OK", a code of 400 or
\* more gives the code Unknown and the message "Response status code:
\* <code>"; the status is set once, before the span is ended
C18_StatusFromStatusCode ==
    pc = "done" =>
        /\ ww.statusCode < 400 =>
            span.status = [Code |-> "OK", Message |-> "OK"]
        /\ ww.statusCode >= 400 =>
            /\ span.status.Code = "Unknown"
            /\ span.status.Message
                 = "Response status code: " \o ToString(ww.statusCode)
        /\ ww.statusCode = 400 =>
            span.status.Message = "Response status code: 400"
        /\ Cardinality(CallsOf("SetStatus")) = 1
        /\ \A i \in CallsOf("SetStatus") : \A j \in CallsOf("End") : i < j

C18_Witness ==
    /\ pc = "done"
    /\ ww.statusCode = 400
    /\ w.codes = <<200, 400>>
    /\ span.status = [Code |-> "Unknown",
                      Message |-> "Response status code: 400"]
    /\ span.ended = 1

\* C19: the span of a request matched by a route is named "[<method>]
\* <route pattern>", never after the URL that was requested, and has one
\* string attribute per URL parameter of the route, the parameter's name
\* as key and its value as value: POST /items/42 on /items/{id} gives the
\* name "[POST] /items/{id}" and the attribute id = "42"
C19_NameFromRoutePattern ==
    (pc = "done" /\ r.route.present) =>
        /\ span.name = "[" \o r.Method \o "] " \o r.route.pattern
        /\ Len(span.attrs) = 2 + Len(r.route.keys)
        /\ \A i \in 1..Len(r.route.keys) :
            /\ AttrCount(r.route.keys[i]) = 1
            /\ AttrValue(span, r.route.keys[i]) = r.route.values[i]
        /\ r.URL = "/items/42" =>
            /\ span.name = "[POST] /items/{id}"
            /\ AttrValue(span, "id") = <<52, 50>>

C19_Witness ==
    /\ pc = "done"
    /\ r.URL = "/items/42"
    /\ r.route.present
    /\ span.name = "[POST] /items/{id}"
    /\ AttrValue(span, "id") = <<52, 50>>

(***************************************************************************)
(* Failures.                                                               *)
(***************************************************************************)
\* C20: the middleware raises no failure of its own for any request, with
\* or without a body, well-formed headers or a router's route context:
\* when the handler did not fault, the middleware returns normally
C20_NoMiddlewareFailure ==
    (pc = "done" /\ ~hist.handlerPanicked) => ~panicking

(***************************************************************************)
(* Several requests served concurrently by one middleware instance.  Each  *)
(* call of ServeHTTP runs in its own goroutine with its own locals (ww,    *)
(* body, span); the objects they point to live on the heap.                *)
(***************************************************************************)
ConcRequests == {1, 2}

\* number of calls each concurrent handler may make
MaxConcOps == 2

ConcRequest(i) ==
    IF i = 1
    THEN Request(SpanHeaderPropagated, <<49, 48, 48>>, FALSE, <<82, 69>>,
                 "POST", "/items/42", TRUE, "/items/{id}", <<"id">>,
                 <<<<52, 50>>>>, TRUE)
    ELSE Request(<<>>, <<>>, FALSE, <<81, 83>>,
                 "GET", "/test", TRUE, "/test", <<>>, <<>>, FALSE)

\* the span identity the tracer gives to the span of request i
ConcNewSpan(i) ==
    IF i = 1 THEN [SpanID |-> SpanIDA, TraceOptions |-> 1]
    ELSE [SpanID |-> SpanIDB, TraceOptions |-> 0]

ConcWriteSlices == {<<104>>, <<105, 33>>}

ConcStatusCodes == {200, 500}

\* the address of a newly allocated object: one that no object has yet
AllocShared(h) == 1

Alloc(h) == Len(h.ww) + 1

\* the objects after the object at address a is (re)initialised to v
Store(objects, a, v) ==
    IF a > Len(objects) THEN Append(objects, v)
    ELSE [objects EXCEPT ![a] = v]

ConcInit ==
    /\ flows = [i \in ConcRequests |->
                 LET rc == ConcRequest(i)
                 IN  [pc |-> "start",
                      r |-> [Method |-> rc.Method,
                             URL |-> rc.URL,
                             Header |-> [k \in HeaderNames |->
                                 IF k = headerNameOpencensusSpan
                                 THEN (IF rc.spanHeader = <<>> THEN <<>>
                                       ELSE <<rc.spanHeader>>)
                                 ELSE (IF rc.eventHeader = <<>> THEN <<>>
                                       ELSE <<rc.eventHeader>>)],
                             ContentLength |-> Len(rc.data),
                             route |-> [present |-> rc.present,
                                        pattern |-> rc.pattern,
                                        keys |-> rc.keys,
                                        values |-> rc.values]],
                      stream |-> [isNil |-> rc.bodyNil, data |-> rc.data,
                                  pos |-> 0, closed |-> FALSE,
                                  failAt |-> rc.failAt],
                      w |-> [body |-> <<>>, codes |-> <<>>, flushes |-> 0,
                             isFlusher |-> rc.isFlusher],
                      obj |-> 0,
                      written |-> <<>>, read |-> <<>>, nOps |-> 0]]
    /\ heap = [ww |-> <<>>, body |-> <<>>, span |-> <<>>]
    /\ pc = "idle"
    /\ panicking = FALSE
    /\ r = <<>>
    /\ stream = <<>>
    /\ w = <<>>
    /\ ww = <<>>
    /\ body = <<>>
    /\ span = NoSpan
    /\ defers = <<>>
    /\ out = <<>>
    /\ hist = <<>>

\* the entry of the middleware for request i: new decorators, a new span
ConcOpencensusTracing(i) ==
    /\ flows[i].pc = "start"
    /\ LET a == Alloc(heap)
       IN  /\ heap' = [ww |-> Store(heap.ww, a,
                                    decorateResponseWriter(flows[i].w)),
                       body |-> Store(heap.body, a,
                                      decorateRequestBody(flows[i].stream)),
                       span |-> Store(heap.span, a,
                                      OpenSpan(flows[i].r.Header,
                                               ConcNewSpan(i)))]
           /\ flows' = [flows EXCEPT ![i].pc = "handler", ![i].obj = a]
    /\ UNCHANGED single

ConcHandlerWrite(i) ==
    /\ flows[i].pc = "handler"
    /\ flows[i].nOps < MaxConcOps
    /\ \E bytes \in ConcWriteSlices :
        LET a == flows[i].obj
            res == ResponseWrite(heap.ww[a], flows[i].w, bytes, Len(bytes))
        IN  /\ heap' = [heap EXCEPT !.ww[a] = res.d]
            /\ flows' = [flows EXCEPT ![i].w = res.w,
                                      ![i].written = @ \o bytes,
                                      ![i].nOps = @ + 1]
    /\ UNCHANGED single

ConcHandlerWriteHeader(i) ==
    /\ flows[i].pc = "handler"
    /\ flows[i].nOps < MaxConcOps
    /\ \E code \in ConcStatusCodes :
        LET a == flows[i].obj
            res == ResponseWriteHeader(heap.ww[a], flows[i].w, code)
        IN  /\ heap' = [heap EXCEPT !.ww[a] = res.d]
            /\ flows' = [flows EXCEPT ![i].w = res.w, ![i].nOps = @ + 1]
    /\ UNCHANGED single

ConcHandlerRead(i) ==
    /\ flows[i].pc = "handler"
    /\ flows[i].nOps < MaxConcOps
    /\ LET a == flows[i].obj
           st == flows[i].stream
           res == RequestRead(heap.body[a], st, 1,
                              Min(1, StreamEnd(st) - st.pos))
       IN  /\ heap' = [heap EXCEPT !.body[a] = res.d]
           /\ flows' = [flows EXCEPT ![i].stream = res.st,
                                     ![i].read = @ \o res.p,
                                     ![i].nOps = @ + 1]
    /\ UNCHANGED single

\* the deferred calls of one request, from the top of the stack on
RECURSIVE RunDeferredCalls(_, _, _, _, _)
RunDeferredCalls(stack, s, req, d, b) ==
    IF Len(stack) = 0 THEN s
    ELSE LET name == Top(stack)
             after ==
                 CASE name = "setSpanNameAndURLAttributes" ->
                          setSpanNameAndURLAttributes(s, req, FALSE).span
                   [] name = "addSpanMessageReceiveEvent" ->
                          addSpanMessageReceiveEvent(s, req)
                   [] name = "setSpanRequestPayloadAttribute" ->
                          setSpanRequestPayloadAttribute(s, b)
                   [] name = "setSpanResponsePayloadAttribute" ->
                          setSpanResponsePayloadAttribute(s, d)
                   [] name = "closeSpan" -> closeSpan(s, d)
         IN  RunDeferredCalls(Pop(stack), after, req, d, b)

\* the handler of request i returns and the deferred calls of its frame run
ConcReturn(i) ==
    /\ flows[i].pc = "handler"
    /\ LET a == flows[i].obj
       IN  heap' = [heap EXCEPT
                      !.span[a] = RunDeferredCalls(DeferOrder, heap.span[a],
                                                   flows[i].r, heap.ww[a],
                                                   heap.body[a])]
    /\ flows' = [flows EXCEPT ![i].pc = "done"]
    /\ UNCHANGED single

ConcNext ==
    \E i \in ConcRequests :
        \/ ConcOpencensusTracing(i)
        \/ ConcHandlerWrite(i)
        \/ ConcHandlerWriteHeader(i)
        \/ ConcHandlerRead(i)
        \/ ConcReturn(i)

SpecConc == ConcInit /\ [][ConcNext]_vars

\* the status code request i set last, 0 if it set none
OwnStatusCode(i) ==
    IF flows[i].w.codes = <<>> THEN 0
    ELSE flows[i].w.codes[Len(flows[i].w.codes)]

\* C21: each of the requests served concurrently has a response decorator,
\* a request decorator and a span of its own, and under every interleaving
\* the payloads, the status code and the span attributes of a request are
\* those of its own writes and reads
C21_RequestsAreIsolated ==
    \A i \in ConcRequests :
        flows[i].pc # "start" =>
            LET a == flows[i].obj
            IN  /\ \A j \in ConcRequests \ {i} :
                       flows[j].pc # "start" => flows[j].obj # a
                /\ Payload(heap.ww[a]) = flows[i].written
                /\ StatusCode(heap.ww[a]) = OwnStatusCode(i)
                /\ RequestPayload(heap.body[a]) = flows[i].read
                /\ heap.span[a].sc.SpanID = ConcNewSpan(i).SpanID
                /\ flows[i].pc = "done" =>
                    /\ heap.span[a].ended = 1
                    /\ heap.span[a].name
                         = "[" \o flows[i].r.Method \o "] "
                               \o flows[i].r.route.pattern
                    /\ AttrValue(heap.span[a], spanResponsePayloadAttributeKey)
                         = flows[i].written
                    /\ AttrValue(heap.span[a], spanRequestPayloadAttributeKey)
                         = flows[i].read
                    /\ heap.span[a].status.Code
                         = IF OwnStatusCode(i) < 400 THEN "OK" ELSE "Unknown"

C21_Witness ==
    /\ flows[1].pc = "done"
    /\ flows[2].pc = "done"
    /\ flows[1].obj = 2
    /\ flows[2].obj = 1
    /\ flows[1].written = <<104>>
    /\ flows[2].written = <<105, 33, 104>>
    /\ flows[1].read = <<82>>
    /\ AttrValue(heap.span[2], spanResponsePayloadAttributeKey) = <<104>>
    /\ AttrValue(heap.span[1], spanResponsePayloadAttributeKey)
         = <<105, 33, 104>>
    /\ AttrValue(heap.span[2], spanRequestPayloadAttributeKey) = <<82>>
    /\ AttrValue(heap.span[1], spanRequestPayloadAttributeKey) = <<>>

(***************************************************************************)
(* The response decorator's status code.                                   *)
(***************************************************************************)
\* C22: every WriteHeader call on the response decorator reaches the sink,
\* with its code and in the order of the calls; StatusCode() is the code of
\* the most recent call, and the span's status is derived from it
C22_LastStatusCodeWins ==
    /\ pc \in {"handler", "deferred", "done"} =>
        /\ w.codes = hist.codes
        /\ hist.codes # <<>> =>
            StatusCode(ww) = hist.codes[Len(hist.codes)]
    /\ (pc = "done" /\ hist.codes # <<>>) =>
        span.status.Code
          = IF hist.codes[Len(hist.codes)] < 400 THEN "OK" ELSE "Unknown"

C22_Witness ==
    /\ pc = "done"
    /\ hist.codes = <<500, 200>>
    /\ w.codes = <<500, 200>>
    /\ StatusCode(ww) = 200
    /\ span.status = [Code |-> "OK", Message |-> "OK"]

(***************************************************************************)
(* The request body.                                                       *)
(***************************************************************************)
\* C23: when reading the original request body fails, the captured payload
\* is empty, the handler is invoked all the same and sees an empty body,
\* and request_payload is set to the empty string
C23_FailedReadGivesEmptyPayload ==
    hist.readFailed =>
        /\ pc \in {"handler", "deferred", "done"}
        /\ RequestPayload(body) = <<>>
        /\ hist.read = <<>>
        /\ pc = "done" =>
            AttrValue(span, spanRequestPayloadAttributeKey) = <<>>

(***************************************************************************)
(* Event ids.                                                              *)
(***************************************************************************)
\* C24: generateEventID returns an integer from 0 up to, not including,
\* math.MaxInt64 and never fails: it returns 0 when the randomness source
\* reports an error, and what the source drew otherwise
C24_EventIDInRange ==
    /\ Len(SentEvents) = Len(hist.sent)
    /\ \A i \in 1..Len(hist.sent) :
        /\ SentEvents[i].id \in 0..(MaxInt64 - 1)
        /\ hist.sent[i].rnd.err => SentEvents[i].id = 0
        /\ ~hist.sent[i].rnd.err => SentEvents[i].id = hist.sent[i].rnd.val

C24_Witness ==
    /\ Len(hist.sent) = 2
    /\ hist.sent[1].rnd.err
    /\ SentEvents[1].id = 0
    /\ ~hist.sent[2].rnd.err
    /\ SentEvents[2].id = MaxInt64 - 1

\* C25: the one event finalization records is of the type received, of the
\* uncompressed size the inbound request declares as its content length
\* and of compressed size 0, whatever the handler wrote to the response
C25_ReceivedEventOfDeclaredLength ==
    pc = "done" =>
        LET id == ParseInt(HeaderGet(r.Header,
                                     headerNameOpencensusSpanEventIDKey))
        IN  span.events
              = SentEvents \o <<[type |-> "recv", id |-> id,
                                size |-> r.ContentLength, csize |-> 0]>>

C25_Witness ==
    /\ pc = "done"
    /\ stream.data = LongBody
    /\ hist.written = <<104>>
    /\ hist.read = <<>>
    /\ RecvEvents = <<[type |-> "recv", id |-> 0,
                       size |-> payloadSizeLimit + 1, csize |-> 0]>>

\* C26 as stated: the message id of every message-sent event is not 0
C26_SentIDNonZero ==
    \A i \in 1..Len(SentEvents) : SentEvents[i].id # 0

\* C26, amended: the message id of a message-sent event is 0 exactly when
\* the randomness source reported an error or drew 0; it is not 0
\* otherwise
C26_SentIDZeroOnlyOnFallback ==
    /\ Len(SentEvents) = Len(hist.sent)
    /\ \A i \in 1..Len(hist.sent) :
        SentEvents[i].id = 0
          <=> (hist.sent[i].rnd.err \/ hist.sent[i].rnd.val = 0)

C26_Witness ==
    /\ Len(hist.sent) = 2
    /\ ~hist.sent[1].rnd.err
    /\ SentEvents[1].id = 1234567
    /\ hist.sent[2].rnd.err
    /\ SentEvents[2].id = 0

(***************************************************************************)
(* A finalization step that fails.                                         *)
(***************************************************************************)
\* C27: every finalization step is a deferred call of its own: when the
\* naming step fails for a request without a route context, the steps
\* after it still run, so the received event and the payload attributes
\* are recorded, the status is set and the span is ended exactly once
C27_FailedStepDoesNotStopTheRest ==
    (pc = "done" /\ ~r.route.present) =>
        /\ panicking
        /\ hist.finLog = <<"setSpanNameAndURLAttributes",
                           "addSpanMessageReceiveEvent",
                           "setSpanRequestPayloadAttribute",
                           "setSpanResponsePayloadAttribute", "closeSpan">>
        /\ Len(RecvEvents) = 1
        /\ HasAttr(span, spanRequestPayloadAttributeKey)
        /\ HasAttr(span, spanResponsePayloadAttributeKey)
        /\ span.status.Code \in {"OK", "Unknown"}
        /\ Cardinality(CallsOf("End")) = 1

C27_Witness ==
    /\ pc = "done"
    /\ ~r.route.present
    /\ ~hist.handlerPanicked
    /\ panicking
    /\ span.name = ""
    /\ hist.codes = <<500>>
    /\ span.status.Code = "Unknown"
    /\ span.ended = 1

SentTo(target) == {i \in 1..Len(hist.sent) : hist.sent[i].target = target}

LastSentTo(target) ==
    CHOOSE i \in SentTo(target) : \A j \in SentTo(target) : j <= i

\* C29: after any number of calls of AddTracingSpanToRequest with a span
\* on one request, each call having minted an id and recorded an event
\* with it, the request has one X-Opencensus-Event-ID value, the decimal id
\* of the event recorded last for it, and one X-Opencensus-Span value, the
\* encoding of the span context of the last call: a call overwrites what
\* the one before it set
C29_LastPropagationWins ==
    \A target \in {"in", "out"} :
        SentTo(target) # {} =>
            LET req == IF target = "in" THEN r ELSE out
                last == LastSentTo(target)
            IN  /\ Len(SentEvents) = Len(hist.sent)
                /\ Len(req.Header[headerNameOpencensusSpanEventIDKey]) = 1
                /\ Len(req.Header[headerNameOpencensusSpan]) = 1
                /\ ParseInt(req.Header[headerNameOpencensusSpanEventIDKey][1])
                     = SentEvents[last].id
                /\ Cardinality(SentTo(target)) > 1 =>
                    FromBinary(
                      DecodeString(
                        req.Header[headerNameOpencensusSpan][1]).bin)
                      = [sc |-> hist.sent[last].sc, ok |-> TRUE]

C29_Witness ==
    /\ Len(hist.sent) = 2
    /\ hist.sent[1].target = "out"
    /\ hist.sent[2].target = "out"
    /\ SentEvents[1].id = 1234567
    /\ SentEvents[2].id = MaxInt64 - 1
    /\ out.Header[headerNameOpencensusSpanEventIDKey]
         = <<<<50, 49, 52, 55, 52, 56, 51, 54, 52, 54>>>>
    /\ Len(out.Header[headerNameOpencensusSpan]) = 1

\* C30: the body the middleware hands to the handler of a request without
\* a body (r.Body is nil) can be read and closed by the handler without a
\* fault
C30_NilBodyReadAndCloseDoNotFault ==
    stream.isNil => ~hist.bodyFault

====
